---------------------------- MODULE Spec2Model ----------------------------
(***************************************************************************)
(* rust-dpi: a SOCKS5 proxy that perturbs the first client payload of each *)
(* CONNECT connection.  The module models                                  *)
(*   - src/src/packets.rs : is_tls_hello, is_http, part_tls                *)
(*   - src/src/main.rs    : the Params built by main, main's accept loop   *)
(*                          and the tasks it spawns, handle,               *)
(*                          desync_hello_phrase and desync                 *)
(* Bytes are naturals 0..255.  Rust slices are 0-based and half-open; the  *)
(* helpers At and Slice keep the source's indices.                         *)
(***************************************************************************)
EXTENDS Integers, Sequences, FiniteSets, TLC

(***************************************************************************)
(* Bounds of the model                                                     *)
(***************************************************************************)
\* method positions 0..MaxSmallPos are enumerated next to the scenario positions
MaxSmallPos == 1
\* --tlsrec positions 0..MaxTlsrecPos are enumerated
MaxTlsrecPos == 8
\* length of the short TLS hellos' payload after the 5-byte header
ShortTlsBody == 3
\* classifier inputs: free bytes after the six-byte TLS hello head
MaxTlsTail == 4
\* classifier inputs: free bytes between the HTTP method and the Host header
MaxHttpPre == 2
\* classifier inputs: spaces after "Host:"
MaxSpaces == 2
\* classifier inputs: length of arbitrary short byte strings
MaxRawLen == 3
\* part_tls inputs: bytes after the 5-byte record header
MaxRecBody == 3
\* the TTL the operating system gave the upstream socket
DefaultTtl == 64
\* copy_bidirectional reads a further chunk while it has read fewer bytes
MaxLater == 3

(***************************************************************************)
(* Rust values                                                             *)
(***************************************************************************)
\* Option<usize>, and a third outcome for a call that panics
None == [tag |-> "None", val |-> 0]
Some(v) == [tag |-> "Some", val |-> v]
Panic == [tag |-> "Panic", val |-> 0]
is_some(o) == o.tag = "Some"

\* buffer[i]
At(s, i) == s[i + 1]
\* &buffer[a..b]
Slice(s, a, b) == SubSeq(s, a + 1, b)
\* &buffer[a..]
SliceFrom(s, a) == SubSeq(s, a + 1, Len(s))
\* buffer.starts_with(prefix)
starts_with(s, prefix) ==
    /\ Len(prefix) <= Len(s)
    /\ Slice(s, 0, Len(prefix)) = prefix

Min(S) == CHOOSE x \in S : \A y \in S : x <= y

\* memmem::find / str::find : index of the first occurrence of needle
MemFind(hay, needle) ==
    LET hits == {i \in 0..(Len(hay) - Len(needle)) :
                    Slice(hay, i, i + Len(needle)) = needle}
    IN  IF hits = {} THEN None ELSE Some(Min(hits))

(***************************************************************************)
(* packets.rs : is_tls_hello                                               *)
(***************************************************************************)
is_tls_hello(buffer) ==
    IF /\ Len(buffer) > 5
       /\ starts_with(buffer, <<22, 3>>)
       /\ At(buffer, 5) = 1
    THEN LET server_name_extension == MemFind(buffer, <<0, 0>>)
         IN  IF is_some(server_name_extension)
             THEN Some(server_name_extension.val + 9)
             ELSE None
    ELSE None

(***************************************************************************)
(* packets.rs : is_http                                                    *)
(***************************************************************************)
\* "HEAD", "GET", "POST", "PUT", "DELETE", "OPTIONS", "CONNECT", "TRACE", "PATCH"
METHODS ==
    << <<72, 69, 65, 68>>, <<71, 69, 84>>, <<80, 79, 83, 84>>, <<80, 85, 84>>,
       <<68, 69, 76, 69, 84, 69>>, <<79, 80, 84, 73, 79, 78, 83>>,
       <<67, 79, 78, 78, 69, 67, 84>>, <<84, 82, 65, 67, 69>>,
       <<80, 65, 84, 67, 72>> >>

\* the loop `for method in METHODS { if buffer.starts_with(..) {..; return} }`
\* reaches its body iff some method is a prefix
StartsWithMethod(buffer) ==
    \E k \in 1..Len(METHODS) : starts_with(buffer, METHODS[k])

\* s[j] exists and lies in lo..hi
InRange(s, j, lo, hi) == j < Len(s) /\ At(s, j) >= lo /\ At(s, j) <= hi

\* width of the well-formed UTF-8 scalar starting at byte i, 0 if there is none
\* (the table of core::str::from_utf8)
Utf8Width(s, i) ==
    LET b == At(s, i)
        c1(lo, hi) == InRange(s, i + 1, lo, hi)
        c2 == InRange(s, i + 2, 128, 191)
        c3 == InRange(s, i + 3, 128, 191)
    IN  CASE b < 128 -> 1
          [] b >= 194 /\ b <= 223 /\ c1(128, 191) -> 2
          [] b = 224 /\ c1(160, 191) /\ c2 -> 3
          [] b >= 225 /\ b <= 236 /\ c1(128, 191) /\ c2 -> 3
          [] b = 237 /\ c1(128, 159) /\ c2 -> 3
          [] b >= 238 /\ b <= 239 /\ c1(128, 191) /\ c2 -> 3
          [] b = 240 /\ c1(144, 191) /\ c2 /\ c3 -> 4
          [] b >= 241 /\ b <= 243 /\ c1(128, 191) /\ c2 /\ c3 -> 4
          [] b = 244 /\ c1(128, 143) /\ c2 /\ c3 -> 4
          [] OTHER -> 0

\* index of the first byte >= 128 at or after i, Len(s) if there is none
NextNonAscii(s, i) ==
    LET hits == {j \in i..(Len(s) - 1) : At(s, j) >= 128}
    IN  IF hits = {} THEN Len(s) ELSE Min(hits)

\* validation runs over the ASCII bytes and checks each other scalar
RECURSIVE Utf8ValidFrom(_, _)
Utf8ValidFrom(s, i) ==
    LET j == NextNonAscii(s, i)
    IN  IF j >= Len(s) THEN TRUE
        ELSE IF Utf8Width(s, j) = 0 THEN FALSE
        ELSE Utf8ValidFrom(s, j + Utf8Width(s, j))

\* str::from_utf8(buffer).is_ok()
from_utf8_ok(buffer) == Utf8ValidFrom(buffer, 0)

\* u8::to_ascii_lowercase on each byte of an ASCII run
AsciiLower(run) ==
    [k \in 1..Len(run) |-> IF run[k] >= 65 /\ run[k] <= 90 THEN run[k] + 32 ELSE run[k]]

\* str::to_lowercase on the UTF-8 bytes of a valid string.  ASCII letters are
\* folded; U+0130 (C4 B0) becomes "i" + U+0307 (69 CC 87), one byte longer;
\* U+212A KELVIN SIGN (E2 84 AA) becomes "k", two bytes shorter.  Every other
\* scalar is copied: exact for the strings the model draws, whose only
\* multi-byte scalars are these two.
RECURSIVE LowerFrom(_, _)
LowerFrom(s, i) ==
    LET j == NextNonAscii(s, i)
        w == Utf8Width(s, j)
    IN  AsciiLower(Slice(s, i, j)) \o
        ( IF j >= Len(s) THEN <<>>
          ELSE IF Slice(s, j, j + w) = <<196, 176>>
               THEN <<105, 204, 135>> \o LowerFrom(s, j + w)
          ELSE IF Slice(s, j, j + w) = <<226, 132, 170>>
               THEN <<107>> \o LowerFrom(s, j + w)
          ELSE Slice(s, j, j + w) \o LowerFrom(s, j + w) )

to_lowercase(str) == LowerFrom(str, 0)

\* str.is_char_boundary(idx), the check `str[idx..]` makes before slicing
is_char_boundary(str, idx) ==
    \/ idx = 0
    \/ idx = Len(str)
    \/ idx < Len(str) /\ (At(str, idx) < 128 \/ At(str, idx) >= 192)

\* str.to_lowercase().find("\nhost:").map(|idx| idx + 6)
HostIdx(str) ==
    LET found == MemFind(to_lowercase(str), <<10, 104, 111, 115, 116, 58>>)
    IN  IF is_some(found) THEN Some(found.val + 6) ELSE None

\* the loop over str[idx..].chars(): the first char that is not ' '.  Every
\* char stepped over is a one-byte space, so idx + offset is a byte index.
FirstNonSpace(str, idx) ==
    LET cands == {j \in idx..(Len(str) - 1) : At(str, j) # 32}
    IN  IF cands = {} THEN None ELSE Some(Min(cands))

\* is_http panics in from_utf8(..).unwrap() and in the slice str[idx..]
is_http_panics(buffer) ==
    /\ StartsWithMethod(buffer)
    /\ \/ ~from_utf8_ok(buffer)
       \/ LET idx == HostIdx(buffer)
          IN  /\ is_some(idx)
              /\ ~is_char_boundary(buffer, idx.val)

is_http(buffer) ==
    IF ~StartsWithMethod(buffer) THEN None
    ELSE IF is_http_panics(buffer) THEN Panic
    ELSE LET idx == HostIdx(buffer)
         IN  IF is_some(idx) THEN FirstNonSpace(buffer, idx.val) ELSE None

(***************************************************************************)
(* packets.rs : part_tls                                                   *)
(***************************************************************************)
\* htons with the fault of leaving the bytes unswapped
htons_no_swap(val) == val

\* fn htons(val: u16) -> u16
htons(val) == ((val % 256) * 256) + ((val \div 256) % 256)

\* fn convert_u16_to_two_u8s_be(integer: u16) -> [u8; 2]
convert_u16_to_two_u8s_be(integer) == <<integer % 256, (integer \div 256) % 256>>

\* `pos as u16`
as_u16(n) == n % 65536

\* let r_sz = ((buffer[3] as u16) << 8) | buffer[4] as u16
r_sz_of(buffer) == ((At(buffer, 3) * 256) % 65536) + At(buffer, 4)

\* buffer[3] / buffer[..3] need the header, Vec::split_off(at) needs at <= len
part_tls_panics(buffer, pos) ==
    \/ Len(buffer) < 5
    \/ 5 + pos > Len(buffer)

\* `r_sz - pos as u16` overflows: a panic with overflow checks (debug build),
\* a wrap without them (release build)
part_tls_overflows(buffer, pos) == as_u16(pos) > r_sz_of(buffer)

\* the buffer part_tls leaves when it does not panic (the subtraction wraps)
part_tls(buffer, pos) ==
    LET r_sz == r_sz_of(buffer)
        vec1 == Slice(buffer, 0, 3)
        b1   == Slice(buffer, 0, 5 + pos) \o vec1 \o SliceFrom(buffer, 5 + pos)
        rest == (r_sz + 65536 - as_u16(pos)) % 65536
        b2   == Slice(b1, 0, 8 + pos)
                  \o convert_u16_to_two_u8s_be(htons(rest))
                  \o SliceFrom(b1, 8 + pos)
        vec2 == convert_u16_to_two_u8s_be(htons(as_u16(pos)))
    IN  [b2 EXCEPT ![4] = vec2[1], ![5] = vec2[2]]

(***************************************************************************)
(* main.rs : Params as main builds it                                      *)
(***************************************************************************)
\* enum Method { Split(Part), Disorder(Part), Oob(Part) }, Part.flag is None
Method(kind, pos) == [kind |-> kind, pos |-> pos]

\* fn method_part(m: &Method) -> &Part
method_part(m) == [pos |-> m.pos]

\* the comparator with its operands exchanged: ascending by pos
cmp_ascending(a, b) ==
    IF method_part(a).pos < method_part(b).pos THEN "Less"
    ELSE IF method_part(a).pos = method_part(b).pos THEN "Equal" ELSE "Greater"

\* |a, b| method_part(b).pos.cmp(&method_part(a).pos)
cmp_methods(a, b) ==
    IF method_part(b).pos < method_part(a).pos THEN "Less"
    ELSE IF method_part(b).pos = method_part(a).pos THEN "Equal" ELSE "Greater"

\* Vec::sort_by is stable: an element goes after those that compare Less or
\* Equal to it
RECURSIVE sort_by(_)
sort_by(v) ==
    IF v = <<>> THEN <<>>
    ELSE LET init == sort_by(SubSeq(v, 1, Len(v) - 1))
             m    == v[Len(v)]
             k    == Cardinality({i \in 1..Len(init) :
                                    cmp_methods(init[i], m) # "Greater"})
         IN  SubSeq(init, 1, k) \o <<m>> \o SubSeq(init, k + 1, Len(init))

\* vec![disorder, split, oob].into_iter().flatten().collect()
Flatten(disorder, split, oob) ==
    (IF is_some(disorder) THEN <<Method("Disorder", disorder.val)>> ELSE <<>>)
    \o (IF is_some(split) THEN <<Method("Split", split.val)>> ELSE <<>>)
    \o (IF is_some(oob) THEN <<Method("Oob", oob.val)>> ELSE <<>>)

\* let params = Params { tlsrec, methods }
MainParams(disorder, split, oob, tlsrec) ==
    [tlsrec |-> tlsrec, methods |-> sort_by(Flatten(disorder, split, oob))]

(***************************************************************************)
(* The command lines and the first payloads the model draws                *)
(***************************************************************************)
\* the positions the specification's scenarios use
ScenarioPositions == {5, 8, 20, 50, 80}
MethodPositions == (0..MaxSmallPos) \cup ScenarioPositions
TlsrecPositions == 0..MaxTlsrecPos

OptionOf(S) == {None} \cup {Some(v) : v \in S}

\* a ClientHello-like record of n bytes: 16 03 01, length field R, 01, 00 00,
\* then bytes that differ from their neighbours and from 'a'
TlsHello(n, R) ==
    [i \in 1..n |->
        CASE i = 1 -> 22
          [] i = 2 -> 3
          [] i = 3 -> 1
          [] i = 4 -> R \div 256
          [] i = 5 -> R % 256
          [] i = 6 -> 1
          [] i \in {7, 8} -> 0
          [] OTHER -> 110 + (i % 100)]

\* the 200-byte hello with header 16 03 01 00 C3
Hello200 == TlsHello(200, 195)

\* "GET / HTTP/1.1\r\nHost: a.example\r\n\r\n"
HttpGet ==
    <<71, 69, 84, 32, 47, 32, 72, 84, 84, 80, 47, 49, 46, 49, 13, 10,
      72, 111, 115, 116, 58, 32, 97, 46, 101, 120, 97, 109, 112, 108, 101,
      13, 10, 13, 10>>

\* "GET /\r\n\r\n": a request without a Host header
HttpNoHost == <<71, 69, 84, 32, 47, 13, 10, 13, 10>>

TlsPayloads ==
    { TlsHello(5 + ShortTlsBody, ShortTlsBody),
      TlsHello(6 + ShortTlsBody, 1 + ShortTlsBody),
      TlsHello(6 + ShortTlsBody, 1),
      Hello200 }

HttpPayloads == { HttpGet, HttpGet \o HttpGet \o HttpGet }

\* neither HTTP nor TLS hello: end of stream, raw bytes, a TLS record that is
\* no hello, a hello with no 00 00 pair, a request with no Host header
OtherPayloads ==
    { <<>>, <<104, 105>>, <<22, 3, 1, 0, 1, 2>>, <<22, 3, 1, 1, 2, 1>>,
      HttpNoHost }

\* "GET " followed by a byte that is not UTF-8
BadUtf8Payloads == { <<71, 69, 84, 32, 255>> }

FirstPayloads == TlsPayloads \cup HttpPayloads \cup OtherPayloads \cup BadUtf8Payloads

\* the first payloads in the runs of several connections: raw bytes, a TLS hello
ServePayloads == { <<104, 105>>, TlsHello(5 + ShortTlsBody, ShortTlsBody) }

(***************************************************************************)
(* The upstream socket as the model observes it                            *)
(***************************************************************************)
\* one operation on the upstream TcpStream, with the IP_TTL in force after it
WriteOp(data, t) == [op |-> "write", data |-> data, ttl |-> t]
FlushOp(t) == [op |-> "flush", data |-> <<>>, ttl |-> t]
OobOp(data, t) == [op |-> "oob", data |-> data, ttl |-> t]
SetTtlOp(t) == [op |-> "set_ttl", data |-> <<>>, ttl |-> t]

\* the socket's TTL after a sequence of operations
TtlAfter(ops, t) == IF ops = <<>> THEN t ELSE ops[Len(ops)].ttl

\* let mut hello_buf = [0; 9016]
HelloBufSize == 9016

\* AsyncWriteExt::write on n bytes returns how many it accepted: any part of a
\* non-empty buffer
WriteAccepts(n) == IF n = 0 THEN {0} ELSE 1..n

(***************************************************************************)
(* main.rs : desync, the parts of its loop                                 *)
(***************************************************************************)
\* the loop's test with the fault of not comparing pos with offset
LoopBreaksNoLower(pos, off, len) == pos >= len

\* if pos <= offset || pos >= buffer.len() { break; }
LoopBreaks(pos, off, len) == pos <= off \/ pos >= len

\* the Oob arm's slice with the fault of leaving buffer[part.pos] as it is
OobSegmentUnmarked(buf, off, pos) == Slice(buf, off, pos + 1)

\* buffer[part.pos] = b'a'; &buffer[offset..part.pos + 1]
OobSegment(buf, off, pos) == Slice([buf EXCEPT ![pos + 1] = 97], off, pos + 1)

\* the Oob arm with the fault of not writing the saved byte back
OobBufferNotRestored(buf, pos) == [buf EXCEPT ![pos + 1] = 97]

\* the buffer after the Oob arm: ch = buffer[pos]; buffer[pos] = b'a'; send;
\* buffer[pos] = ch
OobBuffer(buf, pos) ==
    LET ch == At(buf, pos)
        marked == [buf EXCEPT ![pos + 1] = 97]
    IN  [marked EXCEPT ![pos + 1] = ch]

\* the buffer after one arm of `match method`: only the Oob arm writes to it
BufferAfter(m, buf) == IF m.kind = "Oob" THEN OobBuffer(buf, m.pos) ELSE buf

\* the arms with the fault of a Disorder arm that leaves the TTL at 1
MethodOpsTtlLeft(m, buf, off, t0) ==
    CASE m.kind = "Split" ->
            <<WriteOp(Slice(buf, off, m.pos), t0), FlushOp(t0)>>
      [] m.kind = "Disorder" ->
            <<SetTtlOp(1), WriteOp(Slice(buf, off, m.pos), 1), FlushOp(1)>>
      [] m.kind = "Oob" ->
            <<OobOp(OobSegment(buf, off, m.pos), t0)>>

\* the socket operations of one arm of `match method`, t0 the TTL on entry
MethodOps(m, buf, off, t0) ==
    CASE m.kind = "Split" ->
            <<WriteOp(Slice(buf, off, m.pos), t0), FlushOp(t0)>>
      [] m.kind = "Disorder" ->
            <<SetTtlOp(1), WriteOp(Slice(buf, off, m.pos), 1), FlushOp(1),
              SetTtlOp(t0)>>
      [] m.kind = "Oob" ->
            <<OobOp(OobSegment(buf, off, m.pos), t0)>>

\* if offset < buffer.len() { write_all(&buffer[offset..]) }
TailOps(buf, off, t0) ==
    IF off < Len(buf) THEN <<WriteOp(SliceFrom(buf, off), t0)>> ELSE <<>>

\* the socket operations of a whole run of desync's loop and tail in which no
\* call fails, from method number i on
RECURSIVE DesyncOps(_, _, _, _, _)
DesyncOps(buf, methods, i, off, t0) ==
    IF i > Len(methods) \/ LoopBreaks(methods[i].pos, off, Len(buf))
    THEN TailOps(buf, off, t0)
    ELSE MethodOps(methods[i], buf, off, t0)
           \o DesyncOps(BufferAfter(methods[i], buf), methods, i + 1,
                        methods[i].pos, t0)

(***************************************************************************)
(* State                                                                   *)
(***************************************************************************)
VARIABLES
    params,   \* Params { tlsrec, methods } handed to the connection
    bytes,    \* &hello_buf[..n], the first payload as read from the client
    tlsRes,   \* what is_tls_hello(buffer) returned
    httpRes,  \* what is_http(buffer) returned
    buffer,   \* desync's working copy `buffer`
    offset,   \* desync's `offset`
    idx,      \* number of the method the loop is at (1-based)
    pc,       \* where the handler is
    wire,     \* the operations performed on the upstream socket, in order
    ttl,      \* the upstream socket's IP_TTL
    cmd,      \* the command conn.wait() returned
    target,   \* what TcpStream::connect returned
    client,   \* the operations performed on the client socket, in order
    nodelay,  \* the upstream socket's TCP_NODELAY
    saved,    \* handle's local `nodelay`
    later,    \* the client bytes copy_bidirectional has read
    startup,  \* main's `params`
    listening,\* main is in its accept loop
    tasks,    \* the spawned handler tasks that are not running: their state
    running   \* the task whose state the handler variables hold

\* the variables of desync_hello_phrase and desync but pc, those of handle
\* outside desync_hello_phrase, and those of main
dvars == <<params, bytes, tlsRes, httpRes, buffer, offset, idx, wire, ttl>>
hvars == <<cmd, target, client, nodelay, saved, later>>
svars == <<startup, listening, tasks, running>>

vars == <<params, bytes, tlsRes, httpRes, buffer, offset, idx, pc, wire, ttl,
          hvars, svars>>

is_https == is_some(tlsRes)

\* the client socket as the model observes it: the calls of reply with what
\* they returned (ok: Ok, not Err), and the reads that returned bytes
ReplyOp(r, ok) == [op |-> "reply", reply |-> r, ok |-> ok, data |-> <<>>]
ReadOp(b) == [op |-> "read", reply |-> "", ok |-> TRUE, data |-> b]

\* the result of TcpStream::connect: none yet, Err, or Ok(socket) with the
\* TCP_NODELAY the operating system gave the socket
NoTarget == [state |-> "none", nodelay |-> FALSE]
ConnectErr == [state |-> "refused", nodelay |-> FALSE]
Connected(nd) == [state |-> "open", nodelay |-> nd]

\* the connection of a run of one handler, the connections the accept loop
\* accepts, and a task that was not spawned
OnlyConn == "c0"
ConnIds == {"c1", "c2"}
NoTask == [pc |-> "none"]

NoParams == MainParams(None, None, None, None)

ParamsSet ==
    { MainParams(d, s, o, t) :
        d \in OptionOf(MethodPositions), s \in OptionOf(MethodPositions),
        o \in OptionOf(MethodPositions), t \in OptionOf(TlsrecPositions) }

InitWith(p, b, at) ==
    /\ params = p
    /\ bytes = b
    /\ tlsRes = None
    /\ httpRes = None
    /\ buffer = <<>>
    /\ offset = 0
    /\ idx = 1
    /\ pc = at
    /\ wire = <<>>
    /\ ttl = DefaultTtl
    /\ cmd = "Connect"
    /\ target = Connected(FALSE)
    /\ client = <<ReplyOp("Succeeded", TRUE)>>
    /\ nodelay = TRUE
    /\ saved = FALSE
    /\ later = <<>>
    /\ startup = p
    /\ listening = TRUE
    /\ tasks = [i \in ConnIds |-> NoTask]
    /\ running = OnlyConn

\* a connection that reached desync_hello_phrase (CONNECT, upstream open,
\* SUCCEEDED sent, TCP_NODELAY forced), with the Params of main
Init == \E p \in ParamsSet : InitWith(p, <<>>, "read")

(***************************************************************************)
(* main.rs : desync_hello_phrase                                           *)
(***************************************************************************)
\* the socket performs ops; the call after them fails, or all succeed
Perform(ops) ==
    /\ wire' = wire \o ops
    /\ ttl' = TtlAfter(ops, ttl)

\* a failing call of ops with the fault of dropping its Err: the calls before
\* it took effect and desync_hello_phrase returns Ok
FailsInSwallowed(ops) ==
    /\ \E k \in 0..(Len(ops) - 1) : Perform(SubSeq(ops, 1, k))
    /\ pc' = "done"

\* some call of ops returns Err, after the k calls before it took effect
FailsIn(ops) ==
    /\ \E k \in 0..(Len(ops) - 1) : Perform(SubSeq(ops, 1, k))
    /\ pc' = "failed"

\* let n = reader.read(&mut hello_buf).await?; let buffer = &hello_buf[..n];
ClientRead ==
    /\ pc = "read"
    /\ \/ /\ \E b \in (IF running = OnlyConn THEN FirstPayloads ELSE ServePayloads) :
                Len(b) <= HelloBufSize /\ bytes' = b
          /\ client' = Append(client, ReadOp(bytes'))
          /\ pc' = "classify"
       \/ /\ pc' = "failed"
          /\ UNCHANGED <<bytes, client>>
    /\ UNCHANGED <<params, tlsRes, httpRes, buffer, offset, idx, wire, ttl>>
    /\ UNCHANGED <<cmd, target, nodelay, saved, later, svars>>

\* let is_https = is_tls_hello(buffer).is_some();
\* if is_https | is_http(buffer).is_some() { desync } else { write }
Classify ==
    /\ pc = "classify"
    /\ tlsRes' = is_tls_hello(bytes)
    /\ httpRes' = is_http(bytes)
    /\ pc' = IF httpRes' = Panic THEN "panic"
             ELSE IF is_some(tlsRes') \/ is_some(httpRes') THEN "desync"
             ELSE "verbatim"
    /\ UNCHANGED <<params, bytes, buffer, offset, idx, wire, ttl>>
    /\ UNCHANGED <<hvars, svars>>

\* writer.write(buffer).await?
WriteVerbatim ==
    /\ pc = "verbatim"
    /\ \/ /\ \E k \in WriteAccepts(Len(bytes)) :
                Perform(<<WriteOp(Slice(bytes, 0, k), ttl)>>)
          /\ pc' = "flush"
       \/ FailsIn(<<WriteOp(bytes, ttl)>>)
    /\ UNCHANGED <<params, bytes, tlsRes, httpRes, buffer, offset, idx>>
    /\ UNCHANGED <<hvars, svars>>

\* writer.flush().await
Flush ==
    /\ pc = "flush"
    /\ \/ Perform(<<FlushOp(ttl)>>) /\ pc' = "done"
       \/ FailsIn(<<FlushOp(ttl)>>)
    /\ UNCHANGED <<params, bytes, tlsRes, httpRes, buffer, offset, idx>>
    /\ UNCHANGED <<hvars, svars>>

(***************************************************************************)
(* main.rs : desync                                                        *)
(***************************************************************************)
\* if let Some(part) = &params.tlsrec { if is_https && part.pos < buffer.len()
TlsrecApplies ==
    /\ is_some(params.tlsrec)
    /\ is_https
    /\ params.tlsrec.val < Len(bytes)

\* bytes.clone_into(&mut buffer); the tlsrec step; let mut offset = 0
DesyncBegin ==
    /\ pc = "desync"
    /\ offset' = 0
    /\ idx' = 1
    /\ \/ /\ ~TlsrecApplies
          /\ buffer' = bytes
          /\ pc' = "loop"
       \/ /\ TlsrecApplies
          /\ ~part_tls_panics(bytes, params.tlsrec.val)
          /\ buffer' = part_tls(bytes, params.tlsrec.val)
          /\ pc' = "loop"
       \/ /\ TlsrecApplies
          /\ \/ part_tls_panics(bytes, params.tlsrec.val)
             \/ part_tls_overflows(bytes, params.tlsrec.val)
          /\ buffer' = bytes
          /\ pc' = "panic"
    /\ UNCHANGED <<params, bytes, tlsRes, httpRes, wire, ttl>>
    /\ UNCHANGED <<hvars, svars>>

InLoopBody ==
    /\ pc = "loop"
    /\ idx <= Len(params.methods)
    /\ ~LoopBreaks(method_part(params.methods[idx]).pos, offset, Len(buffer))

\* one turn of `for method in &params.methods`: the arm's calls, offset = pos
MethodArm ==
    /\ LET m == params.methods[idx]
           ops == MethodOps(m, buffer, offset, ttl)
       IN  \/ /\ Perform(ops)
              /\ buffer' = BufferAfter(m, buffer)
              /\ offset' = m.pos
              /\ idx' = idx + 1
              /\ pc' = "loop"
           \/ /\ FailsIn(ops)
              /\ UNCHANGED <<buffer, offset, idx>>
    /\ UNCHANGED <<params, bytes, tlsRes, httpRes>>
    /\ UNCHANGED <<hvars, svars>>

\* Method::Split(part) => write_all(&buffer[offset..part.pos]); flush
ApplySplit ==
    /\ InLoopBody
    /\ params.methods[idx].kind = "Split"
    /\ MethodArm

\* Method::Disorder(part) => ttl(); set_ttl(1); write_all; flush; set_ttl(ttl)
ApplyDisorder ==
    /\ InLoopBody
    /\ params.methods[idx].kind = "Disorder"
    /\ MethodArm

\* Method::Oob(part) => send_out_of_band(&buffer[offset..part.pos + 1])
ApplyOob ==
    /\ InLoopBody
    /\ params.methods[idx].kind = "Oob"
    /\ MethodArm

\* the loop ends: the methods are used up, or `break`
LoopExit ==
    /\ pc = "loop"
    /\ ~InLoopBody
    /\ pc' = "tail"
    /\ UNCHANGED <<params, bytes, tlsRes, httpRes, buffer, offset, idx, wire, ttl>>
    /\ UNCHANGED <<hvars, svars>>

\* if offset < buffer.len() { tcp_stream.write_all(&buffer[offset..]).await?; }
WriteTail ==
    /\ pc = "tail"
    /\ LET ops == TailOps(buffer, offset, ttl)
       IN  \/ Perform(ops) /\ pc' = "flush"
           \/ FailsIn(ops)
    /\ UNCHANGED <<params, bytes, tlsRes, httpRes, buffer, offset, idx>>
    /\ UNCHANGED <<hvars, svars>>

(***************************************************************************)
(* main.rs : handle                                                        *)
(***************************************************************************)
\* conn.authenticate().await : Ok((conn, _)) or Err, which is returned
Authenticate ==
    /\ pc = "authenticate"
    /\ pc' \in {"wait", "failed"}
    /\ UNCHANGED <<dvars, hvars, svars>>

\* match conn.wait().await : one of the three commands, or Err
Wait ==
    /\ pc = "wait"
    /\ \/ /\ cmd' \in {"Associate", "Bind", "Connect"}
          /\ pc' = IF cmd' = "Connect" THEN "connect" ELSE "reply"
       \/ /\ pc' = "failed"
          /\ UNCHANGED cmd
    /\ UNCHANGED <<dvars, target, client, nodelay, saved, later, svars>>

\* let target = TcpStream::connect(..).await
ConnectTarget ==
    /\ pc = "connect"
    /\ target' \in {ConnectErr} \cup {Connected(nd) : nd \in BOOLEAN}
    /\ nodelay' = target'.nodelay
    /\ pc' = "reply"
    /\ UNCHANGED <<dvars, cmd, client, saved, later, svars>>

\* the Reply of the arms of handle with the fault of answering Succeeded in all
ReplyForAllSucceeded(c, t) == "Succeeded"

\* the Reply of each arm of handle
ReplyFor(c, t) ==
    IF c \in {"Associate", "Bind"} THEN "CommandNotSupported"
    ELSE IF t.state = "open" THEN "Succeeded"
    ELSE "HostUnreachable"

\* .reply(..).await : Ok(conn), after which the arms other than the connected
\* one close and fall through to Ok(()); or Err, which is returned
SendReply ==
    /\ pc = "reply"
    /\ \/ /\ client' = Append(client, ReplyOp(ReplyFor(cmd, target), TRUE))
          /\ pc' = IF ReplyFor(cmd, target) = "Succeeded" THEN "nodelay"
                   ELSE "returned"
       \/ /\ client' = Append(client, ReplyOp(ReplyFor(cmd, target), FALSE))
          /\ pc' = "failed"
    /\ UNCHANGED <<dvars, cmd, target, nodelay, saved, later, svars>>

\* let nodelay = target.nodelay()?;
GetNodelay ==
    /\ pc = "nodelay"
    /\ \/ saved' = nodelay /\ pc' = "set_nodelay"
       \/ pc' = "failed" /\ UNCHANGED saved
    /\ UNCHANGED <<dvars, cmd, target, client, nodelay, later, svars>>

\* target.set_nodelay(true)?;
SetNodelay ==
    /\ pc = "set_nodelay"
    /\ \/ nodelay' = TRUE /\ pc' = "read"
       \/ pc' = "failed" /\ UNCHANGED nodelay
    /\ UNCHANGED <<dvars, cmd, target, client, saved, later, svars>>

\* the step after desync_hello_phrase with the fault of leaving TCP_NODELAY
\* as the desync phase set it
RestoreNodelaySkipped ==
    /\ pc = "done"
    /\ pc' \in {"copy", "failed"}
    /\ UNCHANGED <<dvars, hvars, svars>>

\* desync_hello_phrase(..).await?; target.set_nodelay(nodelay)?;
RestoreNodelay ==
    /\ pc = "done"
    /\ \/ nodelay' = saved /\ pc' = "copy"
       \/ pc' = "failed" /\ UNCHANGED nodelay
    /\ UNCHANGED <<dvars, cmd, target, client, saved, later, svars>>

\* what the client sends after its first payload: raw bytes, a TLS hello
LaterChunks == { <<104, 105>>, TlsHello(5 + ShortTlsBody, ShortTlsBody) }

\* copy_bidirectional(conn, &mut target).await? : a chunk read from the
\* client is written upstream whole; both directions end; or an I/O error
Copy ==
    /\ pc = "copy"
    /\ \/ /\ Len(later) < MaxLater
          /\ \E l \in LaterChunks :
                /\ later' = later \o l
                /\ wire' = Append(wire, WriteOp(l, ttl))
          /\ pc' = "copy"
       \/ /\ pc' \in {"returned", "failed"}
          /\ UNCHANGED <<later, wire>>
    /\ UNCHANGED <<params, bytes, tlsRes, httpRes, buffer, offset, idx, ttl>>
    /\ UNCHANGED <<cmd, target, client, nodelay, saved, svars>>

Next ==
    \/ ClientRead
    \/ Classify
    \/ WriteVerbatim
    \/ Flush
    \/ DesyncBegin
    \/ ApplySplit
    \/ ApplyDisorder
    \/ ApplyOob
    \/ LoopExit
    \/ WriteTail

Spec == Init /\ [][Next]_vars

(***************************************************************************)
(* One connection from the start of handle                                 *)
(***************************************************************************)
\* the Params of the runs of handle: one small and one mid position for each
\* method, the TLS record split at 1
HandleParamsSet ==
    { MainParams(d, s, o, t) :
        d \in OptionOf({MaxSmallPos, 5}), s \in OptionOf({MaxSmallPos, 5}),
        o \in OptionOf({MaxSmallPos, 5}), t \in OptionOf({1}) }

\* a handler task as tokio::spawn starts it, with its clone of main's params
SpawnedTask(p) ==
    [ params |-> p, bytes |-> <<>>, tlsRes |-> None, httpRes |-> None,
      buffer |-> <<>>, offset |-> 0, idx |-> 1, pc |-> "authenticate",
      wire |-> <<>>, ttl |-> DefaultTtl, cmd |-> "none", target |-> NoTarget,
      client |-> <<>>, nodelay |-> FALSE, saved |-> FALSE, later |-> <<>> ]

\* the handler variables hold the task state s
HandlerIs(s) ==
    /\ params = s.params
    /\ bytes = s.bytes
    /\ tlsRes = s.tlsRes
    /\ httpRes = s.httpRes
    /\ buffer = s.buffer
    /\ offset = s.offset
    /\ idx = s.idx
    /\ pc = s.pc
    /\ wire = s.wire
    /\ ttl = s.ttl
    /\ cmd = s.cmd
    /\ target = s.target
    /\ client = s.client
    /\ nodelay = s.nodelay
    /\ saved = s.saved
    /\ later = s.later

InitHandler(p) == HandlerIs(SpawnedTask(p))

InitHandle ==
    \E p \in HandleParamsSet :
        /\ InitHandler(p)
        /\ startup = p
        /\ listening = TRUE
        /\ tasks = [i \in ConnIds |-> NoTask]
        /\ running = OnlyConn

NextHandle ==
    \/ Authenticate
    \/ Wait
    \/ ConnectTarget
    \/ SendReply
    \/ GetNodelay
    \/ SetNodelay
    \/ ClientRead
    \/ Classify
    \/ WriteVerbatim
    \/ Flush
    \/ DesyncBegin
    \/ ApplySplit
    \/ ApplyDisorder
    \/ ApplyOob
    \/ LoopExit
    \/ WriteTail
    \/ RestoreNodelay
    \/ Copy

SpecHandle == InitHandle /\ [][NextHandle]_vars

(***************************************************************************)
(* main.rs : main's accept loop and the handler tasks it spawns            *)
(***************************************************************************)
\* the state of the task the handler variables hold
HandlerState ==
    [ params |-> params, bytes |-> bytes, tlsRes |-> tlsRes,
      httpRes |-> httpRes, buffer |-> buffer, offset |-> offset, idx |-> idx,
      pc |-> pc, wire |-> wire, ttl |-> ttl, cmd |-> cmd, target |-> target,
      client |-> client, nodelay |-> nodelay, saved |-> saved,
      later |-> later ]

\* the handler variables take the task state s
Load(s) ==
    /\ params' = s.params
    /\ bytes' = s.bytes
    /\ tlsRes' = s.tlsRes
    /\ httpRes' = s.httpRes
    /\ buffer' = s.buffer
    /\ offset' = s.offset
    /\ idx' = s.idx
    /\ pc' = s.pc
    /\ wire' = s.wire
    /\ ttl' = s.ttl
    /\ cmd' = s.cmd
    /\ target' = s.target
    /\ client' = s.client
    /\ nodelay' = s.nodelay
    /\ saved' = s.saved
    /\ later' = s.later

\* no task is running; a task that is running; a task the runtime dropped
IdleTask == [SpawnedTask(NoParams) EXCEPT !.pc = "none"]
RunningTask == [pc |-> "running"]
CancelledTask == [pc |-> "cancelled"]

\* handle has returned or panicked
Ended(p) == p \in {"returned", "failed", "panic"}

\* the Params main builds in the runs of the accept loop
ServeParamsSet ==
    { MainParams(None, Some(MaxSmallPos), None, None),
      MainParams(Some(5), None, None, Some(1)),
      MainParams(None, None, Some(5), None) }

\* while let Ok((conn, _)) = server.accept().await {
\*     let params = params.clone(); tokio::spawn(async move { handle(..) }); }
Accept ==
    /\ listening
    /\ \E i \in ConnIds :
          /\ tasks[i] = NoTask
          /\ tasks' = [tasks EXCEPT ![i] = SpawnedTask(startup)]
    /\ UNCHANGED <<dvars, pc, hvars, startup, listening, running>>

\* server.accept() returns Err: the loop ends, main returns Ok(()) and the
\* runtime drops the tasks
AcceptErr ==
    /\ listening
    /\ listening' = FALSE
    /\ tasks' = [i \in ConnIds |-> IF tasks[i] = NoTask THEN NoTask
                                   ELSE CancelledTask]
    /\ running' = "none"
    /\ Load(IdleTask)
    /\ UNCHANGED startup

\* the runtime polls a spawned task that has not ended
Resume ==
    /\ listening
    /\ running = "none"
    /\ \E i \in ConnIds :
          /\ tasks[i].pc \notin {"none", "running", "cancelled"}
          /\ ~Ended(tasks[i].pc)
          /\ Load(tasks[i])
          /\ tasks' = [tasks EXCEPT ![i] = RunningTask]
          /\ running' = i
    /\ UNCHANGED <<startup, listening>>

\* the running task is suspended at an await
Yield ==
    /\ running # "none"
    /\ ~Ended(pc)
    /\ tasks' = [tasks EXCEPT ![running] = HandlerState]
    /\ running' = "none"
    /\ Load(IdleTask)
    /\ UNCHANGED <<startup, listening>>

\* the task with the fault of an Err of handle ending main's loop
TaskEndsStopsLoop ==
    /\ running # "none"
    /\ Ended(pc)
    /\ tasks' = [tasks EXCEPT ![running] = HandlerState]
    /\ running' = "none"
    /\ Load(IdleTask)
    /\ listening' = (pc = "returned")
    /\ UNCHANGED startup

\* match handle(conn, params).await { Ok(()) => {}, Err(err) => eprintln! }:
\* the task ends; a panic of handle ends the task as well
TaskEnds ==
    /\ running # "none"
    /\ Ended(pc)
    /\ tasks' = [tasks EXCEPT ![running] = HandlerState]
    /\ running' = "none"
    /\ Load(IdleTask)
    /\ UNCHANGED <<startup, listening>>

InitServe ==
    \E p \in ServeParamsSet :
        /\ startup = p
        /\ listening = TRUE
        /\ tasks = [i \in ConnIds |-> NoTask]
        /\ running = "none"
        /\ HandlerIs(IdleTask)

NextServe ==
    \/ Accept
    \/ AcceptErr
    \/ Resume
    \/ Yield
    \/ TaskEnds
    \/ Authenticate
    \/ Wait
    \/ ConnectTarget
    \/ SendReply
    \/ GetNodelay
    \/ SetNodelay
    \/ ClientRead
    \/ Classify
    \/ WriteVerbatim
    \/ Flush
    \/ DesyncBegin
    \/ ApplySplit
    \/ ApplyDisorder
    \/ ApplyOob
    \/ LoopExit
    \/ WriteTail
    \/ RestoreNodelay
    \/ Copy

SpecServe == InitServe /\ [][NextServe]_vars

(***************************************************************************)
(* What the upstream receives                                              *)
(***************************************************************************)
\* the bytes of one socket operation that enter the upstream's byte stream:
\* all of a write, an out-of-band send without its last (urgent) byte
StreamBytes(o) ==
    CASE o.op = "write" -> o.data
      [] o.op = "oob" -> SubSeq(o.data, 1, Len(o.data) - 1)
      [] OTHER -> <<>>

RECURSIVE Delivered(_)
Delivered(w) ==
    IF w = <<>> THEN <<>>
    ELSE Delivered(SubSeq(w, 1, Len(w) - 1)) \o StreamBytes(w[Len(w)])

IsSegment(o) == o.op \in {"write", "oob"}
Segments(w) == SelectSeq(w, IsSegment)

\* the stream offsets at which one segment ends and the next begins
Boundaries(w) ==
    LET segs == Segments(w)
    IN  [i \in 1..(Len(segs) - 1) |-> Len(Delivered(SubSeq(segs, 1, i)))]

Classified == is_some(tlsRes) \/ is_some(httpRes)
EmitterReturnedOk == Classified /\ pc \in {"flush", "done"}
MethodPositionsOf(ms) == {ms[i].pos : i \in 1..Len(ms)}

C2_VerbatimForwarded ==
    (pc = "done" /\ ~Classified) => Delivered(wire) = bytes

\* C3: with methods at the positions 20, 50 and 80 and a classified payload
\* longer than 80 bytes, the emitted segments have their boundaries at 20, 50
\* and 80, in that order.
C3_BoundariesInOrder ==
    ( /\ EmitterReturnedOk
      /\ Len(params.methods) = 3
      /\ MethodPositionsOf(params.methods) = {20, 50, 80}
      /\ Len(bytes) > 80 )
    => Boundaries(wire) = <<20, 50, 80>>

\* C4: a run of desync executes at most one method action: after one method
\* was applied every later one is skipped, so at most one method segment and
\* the tail are sent.  With --disorder 8 --split 20 the emission is the Split
\* of [0..20) and the tail [20..), with no Disorder action.
C4_AtMostOneMethod ==
    /\ idx <= 2
    /\ Len(Segments(wire)) <= 2
    /\ ( /\ EmitterReturnedOk
         /\ params.methods = <<Method("Split", 20), Method("Disorder", 8)>>
         /\ Len(buffer) > 20 )
       => SubSeq(wire, 1, 3) =
            <<WriteOp(Slice(buffer, 0, 20), DefaultTtl), FlushOp(DefaultTtl),
              WriteOp(SliceFrom(buffer, 20), DefaultTtl)>>

\* C4 witness: two methods at position 50, the first applied, the second
\* skipped, the desync phase completed
C4_Witness ==
    /\ pc = "done"
    /\ Len(params.methods) = 2
    /\ MethodPositionsOf(params.methods) = {50}
    /\ idx = 2
    /\ offset = 50

\* C5: a method whose pos is out of range for the payload (pos >= len(P)) is
\* a no-op: the upstream operations of the emitter are those of a run in which
\* the out-of-range methods are not configured.
C5_OutOfRangeIsNoOp ==
    (Classified /\ pc = "flush") =>
        LET InRange_(m) == m.pos < Len(bytes)
        IN  wire = DesyncOps(buffer, SelectSeq(params.methods, InRange_), 1, 0, ttl)

\* C7: for a TLS hello and a tlsrec.pos that violates the split's
\* precondition (pos < R and pos < number of bytes after the 5-byte header),
\* the split is skipped, the payload is emitted unmodified and nothing panics.
C7_TlsrecPreconditionChecked ==
    ( /\ is_https
      /\ is_some(params.tlsrec)
      /\ ~( /\ params.tlsrec.val < At(bytes, 3) * 256 + At(bytes, 4)
            /\ params.tlsrec.val < Len(bytes) - 5 ) )
    => /\ pc # "panic"
       /\ pc \in {"loop", "tail"} => buffer = bytes
       /\ pc \in {"flush", "done"} => Delivered(wire) = bytes

(***************************************************************************)
(* The classifiers alone: is_tls_hello and is_http applied to one buffer   *)
(***************************************************************************)
SeqsUpTo(S, n) == UNION {[1..k -> S] : k \in 0..n}

RECURSIVE Concat(_)
Concat(ss) == IF ss = <<>> THEN <<>> ELSE ss[1] \o Concat(SubSeq(ss, 2, Len(ss)))

\* 16 03 * * * 01 followed by free bytes
TlsHeadInputs ==
    { <<22, 3, b2, b3, b4, 1>> \o t :
        b2 \in {0, 3}, b3 \in {0, 3}, b4 \in {0, 3}, t \in SeqsUpTo({0, 7}, MaxTlsTail) }

\* what may stand between the method and the Host header: "/", " ", "H",
\* U+0130, U+212A, the byte FF, a lone continuation byte B0
PreChunks ==
    { <<47>>, <<32>>, <<72>>, <<196, 176>>, <<226, 132, 170>>, <<255>>, <<176>> }

\* "\nHost:", "\nhost:", "\nHOST:"
HostNames ==
    { <<10, 72, 111, 115, 116, 58>>, <<10, 104, 111, 115, 116, 58>>,
      <<10, 72, 79, 83, 84, 58>> }

\* "example.com"
ExampleCom == <<101, 120, 97, 109, 112, 108, 101, 46, 99, 111, 109>>

Spaces(k) == [i \in 1..k |-> 32]

\* <method> <pre> "\nHost:" <spaces> "example.com"
HttpHostInputs ==
    { METHODS[m] \o Concat(pre) \o h \o Spaces(k) \o ExampleCom :
        m \in 1..Len(METHODS), pre \in SeqsUpTo(PreChunks, MaxHttpPre),
        h \in HostNames, k \in 0..MaxSpaces }

\* short arbitrary byte strings, and requests that end after "Host:"
RawInputs ==
    SeqsUpTo({0, 1, 3, 22, 71, 69, 84, 255}, MaxRawLen)
      \cup { METHODS[m] \o h \o Spaces(k) : m \in {2}, h \in HostNames, k \in 0..MaxSpaces }

ClassifierInputs == TlsHeadInputs \cup HttpHostInputs \cup RawInputs \cup FirstPayloads

InitClassify == \E b \in ClassifierInputs : InitWith(NoParams, b, "classify")

NextClassify == Classify

SpecClassify == InitClassify /\ [][NextClassify]_vars

Classifying == pc = "classify"

\* C6: the classifiers are total: on every byte sequence is_tls_hello and
\* is_http return Some(offset) or None and never panic; a buffer that starts
\* with an HTTP method and is not valid UTF-8 makes is_http return None.
C6_ClassifiersTotal ==
    ~Classifying =>
        /\ pc # "panic"
        /\ tlsRes.tag \in {"Some", "None"}
        /\ httpRes.tag \in {"Some", "None"}
        /\ (StartsWithMethod(bytes) /\ ~from_utf8_ok(bytes)) => httpRes = None

\* the indices after byte 5 at which a 00 00 pair starts
PairsAfterHead(b) == {i \in 6..(Len(b) - 2) : At(b, i) = 0 /\ At(b, i + 1) = 0}

\* C9: for a buffer whose first six bytes are 16 03 * * * 01 and that holds a
\* 00 00 pair after byte 5, is_tls_hello returns Some(i + 9), i the index of
\* the first such pair, whatever bytes 2..5 are.
C9_FirstPairAfterHead ==
    ( /\ ~Classifying
      /\ Len(bytes) >= 6
      /\ At(bytes, 0) = 22 /\ At(bytes, 1) = 3 /\ At(bytes, 5) = 1
      /\ PairsAfterHead(bytes) # {} )
    => tlsRes = Some(Min(PairsAfterHead(bytes)) + 9)

\* b holds, at index i, "\nhost:" in any letter case, k spaces and
\* "example.com", and no "\nhost:" starts before i
HostHeaderAt(b, i, k) ==
    /\ i + 6 + k + Len(ExampleCom) <= Len(b)
    /\ AsciiLower(Slice(b, i, i + 6)) = <<10, 104, 111, 115, 116, 58>>
    /\ Slice(b, i + 6, i + 6 + k) = Spaces(k)
    /\ Slice(b, i + 6 + k, i + 6 + k + Len(ExampleCom)) = ExampleCom
    /\ \A j \in 0..(i - 1) :
          AsciiLower(Slice(b, j, j + 6)) # <<10, 104, 111, 115, 116, 58>>

\* C10: for a buffer that begins with one of the nine methods and holds
\* "\nHost:" (any letter case), any number of spaces and "example.com",
\* is_http returns the index of the 'e' of "example.com" in the buffer,
\* whatever bytes precede the Host header.
C10_HostOffset ==
    (~Classifying /\ StartsWithMethod(bytes)) =>
        \A i \in 0..Len(bytes), k \in 0..Len(bytes) :
            HostHeaderAt(bytes, i, k) => httpRes = Some(i + 6 + k)

(***************************************************************************)
(* part_tls alone: one call on one buffer                                  *)
(***************************************************************************)
\* the values of the record length field
RecordLengths == {0, 1, 2, 3, 255, 256, 258, 65535}

\* <<buffer, pos>>: short records with every length field and every small pos,
\* the 200-byte hello, and a 300-byte record split past its 256th byte
PartTlsCalls ==
    { <<TlsHello(n, R), pos>> :
        n \in 5..(5 + MaxRecBody), R \in RecordLengths, pos \in 0..(MaxRecBody + 1) }
      \cup { <<Hello200, pos>> : pos \in {1, 194, 195} }
      \cup { <<TlsHello(300, 295), pos>> : pos \in {255, 256, 257} }

InitPartTls ==
    \E c \in PartTlsCalls :
        /\ InitWith(MainParams(None, None, None, Some(c[2])), c[1], "part_tls")

\* part_tls(&mut buffer, part.pos)
CallPartTls ==
    /\ pc = "part_tls"
    /\ \/ /\ ~part_tls_panics(bytes, params.tlsrec.val)
          /\ buffer' = part_tls(bytes, params.tlsrec.val)
          /\ pc' = "returned"
       \/ /\ \/ part_tls_panics(bytes, params.tlsrec.val)
             \/ part_tls_overflows(bytes, params.tlsrec.val)
          /\ buffer' = bytes
          /\ pc' = "panic"
    /\ UNCHANGED <<params, bytes, tlsRes, httpRes, offset, idx, wire, ttl>>
    /\ UNCHANGED <<hvars, svars>>

NextPartTls == CallPartTls

SpecPartTls == InitPartTls /\ [][NextPartTls]_vars

\* the big-endian u16 at s[i..i+2]
BigEndian16(s, i) == At(s, i) * 256 + At(s, i + 1)

\* C8: for a buffer of length L holding a TLS record with length field R and
\* 0 < pos < R, 5 + pos <= L, part_tls returns a buffer of length L + 5 with:
\* bytes 0..3 the original header bytes 0..3; the u16 at 3..5 equal to pos;
\* bytes 5..5+pos unchanged; bytes 5+pos..8+pos the original bytes 0..3; the
\* u16 at 8+pos..10+pos equal to R - pos; the bytes from 10+pos on the original
\* bytes from 5+pos on.  The 200-byte hello 16 03 01 00 C3 split at 1 gives 205
\* bytes that start 16 03 01 00 01 and hold 16 03 01 00 C2 at 6..11.
C8_PartTlsFraming ==
    LET pos == params.tlsrec.val
        L   == Len(bytes)
        R   == BigEndian16(bytes, 3)
    IN  (pc # "part_tls" /\ 0 < pos /\ pos < R /\ 5 + pos <= L) =>
            /\ pc = "returned"
            /\ Len(buffer) = L + 5
            /\ Slice(buffer, 0, 3) = Slice(bytes, 0, 3)
            /\ BigEndian16(buffer, 3) = pos
            /\ Slice(buffer, 5, 5 + pos) = Slice(bytes, 5, 5 + pos)
            /\ Slice(buffer, 5 + pos, 8 + pos) = Slice(bytes, 0, 3)
            /\ BigEndian16(buffer, 8 + pos) = R - pos
            /\ SliceFrom(buffer, 10 + pos) = SliceFrom(bytes, 5 + pos)
            /\ (bytes = Hello200 /\ pos = 1) =>
                  /\ Len(buffer) = 205
                  /\ Slice(buffer, 0, 5) = <<22, 3, 1, 0, 1>>
                  /\ Slice(buffer, 6, 11) = <<22, 3, 1, 0, 194>>

\* C8 witness: the 200-byte hello was split at 1
C8_Witness ==
    /\ pc = "returned"
    /\ bytes = Hello200
    /\ params.tlsrec.val = 1
    /\ Len(buffer) = 205

(***************************************************************************)
(* Claims about the loop of desync, under Spec                             *)
(***************************************************************************)
\* this step runs an arm of `match method`, to its end or to a failing call
ArmExecuted == pc = "loop" /\ pc' # "tail"

\* C19: in the emitter loop every method whose arm is executed has
\* 0 < pos < buffer.len() and pos > offset at that moment; offset never
\* decreases and never exceeds buffer.len(), so buffer[offset..pos],
\* buffer[offset..pos + 1] and buffer[offset..] are within bounds.
C19_SlicesInBounds ==
    /\ [](offset <= Len(buffer))
    /\ [][ /\ offset' >= offset
           /\ ArmExecuted =>
                 LET pos == method_part(params.methods[idx]).pos
                 IN  /\ 0 < pos
                     /\ offset < pos
                     /\ pos + 1 <= Len(buffer) ]_vars

\* C19 witness: an Oob arm was executed at a position inside the buffer and
\* the loop was left with the offset at that position
C19_Witness ==
    /\ pc = "tail"
    /\ idx = 2
    /\ params.methods[1].kind = "Oob"
    /\ 0 < offset
    /\ offset = params.methods[1].pos
    /\ offset + 1 < Len(buffer)

\* this step runs the Oob arm to its end
OobArmReturns ==
    /\ pc = "loop"
    /\ pc' = "loop"
    /\ idx' = idx + 1
    /\ params.methods[idx].kind = "Oob"

PayloadBytesBefore(j) ==
    LET inserted == 5 + params.tlsrec.val
    IN  IF ~TlsrecApplies \/ j <= inserted THEN j
        ELSE IF j >= inserted + 5 THEN j - 5
        ELSE inserted

\* C18: a method's pos is an offset from byte 0 of the payload as read from
\* the client: whenever a method at pos was applied, also after a TLS record
\* split, pos is less than the length of the payload as read and the segment
\* boundary lies immediately before the payload's byte pos.
C18_PosIsPayloadOffset ==
    (pc \in {"loop", "tail", "flush", "done"} /\ idx > 1) =>
        LET pos == params.methods[1].pos
        IN  /\ pos < Len(bytes)
            /\ PayloadBytesBefore(pos) = pos

(***************************************************************************)
(* Claims about handle, under SpecHandle                                   *)
(***************************************************************************)
\* the handler is inside desync_hello_phrase
InDesyncPhase ==
    pc \in {"read", "classify", "verbatim", "desync", "loop", "tail", "flush"}

\* C11: on a CONNECT connection TCP_NODELAY of the upstream socket is true
\* throughout the desync phase, at every upstream write of it in particular;
\* when the bidirectional copy begins TCP_NODELAY has the value the socket had
\* before the desync phase; the copy begins only after a desync phase that
\* returned Ok.
C11_NodelayAroundDesync ==
    /\ [](InDesyncPhase => nodelay)
    /\ [](pc = "copy" => nodelay = target.nodelay)
    /\ [][ /\ (InDesyncPhase /\ wire' # wire) => (nodelay /\ nodelay')
           /\ (pc' = "copy") => (pc \in {"done", "copy"}) ]_vars

\* C11 witness: the socket came with TCP_NODELAY off, the desync phase wrote
\* upstream, and the copy has begun with TCP_NODELAY off again
C11_Witness ==
    /\ pc = "copy"
    /\ later = <<>>
    /\ target = Connected(FALSE)
    /\ ~nodelay
    /\ Len(wire) >= 2

\* the calls of reply made on the client socket, the reads made on it
IsReply(o) == o.op = "reply"
IsRead(o) == o.op = "read"
Replies == SelectSeq(client, IsReply)
Reads == SelectSeq(client, IsRead)

\* handle is past the reply of its arm
PastReply ==
    /\ cmd # "none"
    /\ pc \notin {"authenticate", "wait", "connect", "reply"}

\* C12: a connection whose command was received gets exactly one SOCKS5
\* reply: COMMAND_NOT_SUPPORTED for ASSOCIATE and BIND, for which no upstream
\* connection is opened, HOST_UNREACHABLE for a CONNECT whose upstream
\* connect failed, SUCCEEDED for one whose connect succeeded; no client
\* payload is read and nothing is written upstream unless the SUCCEEDED reply
\* was sent successfully before.
C12_OneReply ==
    /\ Len(Replies) <= 1
    /\ PastReply => Len(Replies) = 1
    /\ cmd \in {"Associate", "Bind"} =>
          /\ target = NoTarget
          /\ \A i \in 1..Len(Replies) : Replies[i].reply = "CommandNotSupported"
    /\ (cmd = "Connect" /\ target = ConnectErr) =>
          \A i \in 1..Len(Replies) : Replies[i].reply = "HostUnreachable"
    /\ (cmd = "Connect" /\ target.state = "open") =>
          \A i \in 1..Len(Replies) : Replies[i].reply = "Succeeded"
    /\ (Reads # <<>> \/ wire # <<>> \/ later # <<>> \/ InDesyncPhase) =>
          /\ Len(client) >= 1
          /\ client[1] = ReplyOp("Succeeded", TRUE)
          /\ cmd = "Connect"
          /\ target.state = "open"

\* C12 witness: a CONNECT whose upstream connect failed was answered
\* HOST_UNREACHABLE and handle returned
C12_Witness ==
    /\ pc = "returned"
    /\ cmd = "Connect"
    /\ target = ConnectErr
    /\ client = <<ReplyOp("HostUnreachable", TRUE)>>
    /\ wire = <<>>

\* the upstream operations of a desync phase in which every call returned Ok
CompleteEmission ==
    IF Classified
    THEN wire = DesyncOps(buffer, params.methods, 1, 0, ttl) \o <<FlushOp(ttl)>>
    ELSE \E k \in WriteAccepts(Len(bytes)) :
            wire = <<WriteOp(Slice(bytes, 0, k), ttl), FlushOp(ttl)>>

\* C16: an I/O error on the upstream socket in the desync phase (write,
\* flush, TTL get or set, out-of-band send, TCP_NODELAY get or set) ends the
\* handler: it returns the error, from where it takes no further step, so
\* nothing more is written upstream; a panic arises only in a step that makes
\* no socket call; and the desync phase returns Ok, after which alone the copy
\* starts, only when every one of its upstream calls was made and returned Ok.
C16_ErrorAborts ==
    /\ [](pc = "done" => CompleteEmission)
    /\ [][ /\ pc # "failed"
           /\ (pc' = "panic") => (pc \in {"classify", "desync"} /\ wire' = wire)
           /\ (pc' = "copy") => (pc \in {"done", "copy"})
           /\ (pc' = "done") => (pc = "flush") ]_vars

\* C16 witness: in a Disorder arm the TTL was set to 1 and the prefix written,
\* then flush returned Err and the handler returned it
C16_Witness ==
    /\ pc = "failed"
    /\ nodelay
    /\ Len(wire) = 2
    /\ wire[1] = SetTtlOp(1)
    /\ wire[2].op = "write"
    /\ ttl = 1

\* this step runs the Disorder arm to its end
DisorderArmReturns ==
    /\ pc = "loop"
    /\ pc' = "loop"
    /\ idx' = idx + 1
    /\ params.methods[idx].kind = "Disorder"

\* C14: the Disorder arm at pos sets the TTL to 1, writes and flushes exactly
\* buffer[offset..pos] and sets the TTL back to the value t0 it read; the TTL
\* is 1 for nothing but a Disorder prefix: every other byte sent upstream (the
\* segments of the other methods, the tail, the verbatim write, the copy) is
\* sent with the TTL the socket came with, and when the desync phase has
\* returned Ok the TTL is that value again.
C14_DisorderTtl ==
    /\ [](\A i \in 1..Len(wire) :
            wire[i].op \in {"write", "oob"} =>
                IF i > 1 /\ wire[i - 1] = SetTtlOp(1)
                THEN wire[i].op = "write" /\ wire[i].ttl = 1
                ELSE wire[i].ttl = DefaultTtl)
    /\ [](pc \in {"flush", "done", "copy", "returned"} => ttl = DefaultTtl)
    /\ [](ttl # DefaultTtl => pc = "failed")
    /\ [][ DisorderArmReturns =>
             LET pos == params.methods[idx].pos
             IN  /\ wire' = wire \o <<SetTtlOp(1),
                                      WriteOp(Slice(buffer, offset, pos), 1),
                                      FlushOp(1), SetTtlOp(ttl)>>
                 /\ ttl' = ttl ]_vars

\* C14 witness: a Disorder prefix went out with TTL 1, the desync phase
\* returned Ok and the copy has forwarded later client bytes with the TTL the
\* socket came with
C14_Witness ==
    /\ pc = "copy"
    /\ later # <<>>
    /\ wire[1] = SetTtlOp(1)
    /\ wire[2].ttl = 1
    /\ wire[Len(wire)].op = "write"
    /\ wire[Len(wire)].ttl = DefaultTtl
    /\ ttl = DefaultTtl

\* C17: the desync phase makes exactly one read from the client, of at most
\* 9016 bytes; what is classified and perturbed is the bytes of that read; the
\* client bytes that arrive later are forwarded by the copy unmodified, after
\* all bytes of the first read: once the copy has forwarded later bytes, the
\* upstream's byte stream is the first read (the buffer desync made of it,
\* for a classified one) followed by the later bytes.
C17_OneReadThenCopy ==
    (pc = "copy" \/ (pc = "returned" /\ target.state = "open")) =>
        /\ Len(Reads) = 1
        /\ Reads[1].data = bytes
        /\ Len(bytes) <= HelloBufSize
        /\ tlsRes = is_tls_hello(bytes)
        /\ httpRes = is_http(bytes)
        /\ later # <<>> =>
              Delivered(wire) = (IF Classified THEN buffer ELSE bytes) \o later

(***************************************************************************)
(* Claims about the accept loop and its tasks, under SpecServe             *)
(***************************************************************************)
\* the state of connection i's task, running or not
TaskState(i) == IF running = i THEN HandlerState ELSE tasks[i]

\* C13: with several connections handled concurrently, a handler that has
\* returned an error leaves the accept loop accepting; under every
\* interleaving a step changes the state (replies, upstream operations and
\* all the rest) of no connection but the one whose handler takes it, save
\* that a connection is spawned by the accept loop and dropped when the loop
\* ends on an accept error; every connection's Params is the value main
\* built, which never changes.
C13_FailuresContained ==
    /\ [](\A i \in ConnIds :
            TaskState(i).pc \notin {"none", "cancelled"} =>
                TaskState(i).params = startup)
    /\ []((\E i \in ConnIds : TaskState(i).pc = "failed") => listening)
    /\ [][ /\ startup' = startup
           /\ \A i \in ConnIds :
                 \/ TaskState(i)' = TaskState(i)
                 \/ running = i /\ running' = i
                 \/ TaskState(i) = NoTask /\ TaskState(i)' = SpawnedTask(startup)
                 \/ listening /\ ~listening' /\ TaskState(i)' = CancelledTask ]_vars

\* C13 witness: one connection's handler has returned an error after its
\* upstream connect failed; the loop is accepting and the other connection's
\* copy has forwarded later client bytes
C13_Witness ==
    /\ listening
    /\ tasks["c1"].pc = "failed"
    /\ tasks["c1"].target = ConnectErr
    /\ running = "c2"
    /\ pc = "copy"
    /\ later # <<>>

=============================================================================
